---- MODULE Spec2Model ----
(***************************************************************************)
(* Model of minerva-rs (src/src/lib.rs): the MinervaTrainer that sequences *)
(* Tegra X1 DRAM training through the external minerva_main primitive.     *)
(*                                                                         *)
(* The trainer's state is its mtc_config_t (cfg) and the record table it   *)
(* borrowed (tables).  The hardware is the CLK_SOURCE_EMC register (reg),  *)
(* which changes independently of the program, and the training engine.    *)
(* init() is a sequence of steps (pc) because it reads the volatile        *)
(* register once per scanned record and calls the engine five times.       *)
(* History variables (issued, before, lastOp, prev, ...) record what an    *)
(* operation did; the program never reads them.                            *)
(***************************************************************************)
EXTENDS Integers, Sequences, FiniteSets, TLC

VARIABLES
    pc,          \* "none" | "failed" | "idle" | init's position
    cfg,         \* MinervaTrainer.cfg : raw::mtc_config_t
    tables,      \* MinervaTrainer.tables : the record view, or NoTables
    idx,         \* init: the record index the scan is at
    ram_index,   \* init: the selected record index
    reg,         \* live value of the CLK_SOURCE_EMC register
    blobs,       \* contents of the embedded profile blobs
    engineModel, \* how minerva_main treats rate_from
    issued,      \* history: configurations handed to the engine by the current/last operation
    before,      \* history: cfg when the current/last operation was entered
    lastOp,      \* history: current/last operation and its argument
    reads,       \* history: register reads of the current/last operation
    hw,          \* history: has the register ever been read / the engine ever been invoked
    prev,        \* history: the operation completed before the current/last one
    sinceInit,   \* history: operations completed since init() last returned
    blob         \* a candidate blob handed to transform_table (SpecBlob)

vars == <<pc, cfg, tables, idx, ram_index, reg, blobs, engineModel,
          issued, before, lastOp, reads, hw, prev, sinceInit, blob>>

----------------------------------------------------------------------------
(* Bounds of the model *)

MaxClk == 1        \* register values are 0..MaxClk
MaxSdramId == 7    \* SDRAM IDs tried are 0..MaxSdramId and one far larger
MaxSince == 3      \* sinceInit counts up to MaxSince (MaxSince: that many or more)
LenSlack == 60     \* candidate blob lengths are BlobLen-LenSlack..BlobLen+LenSlack

----------------------------------------------------------------------------
(* Program constants *)

NumTables == 10
BlobLen == 49280
RecordSize == 4928

OP_SWITCH == 0
OP_TRAIN == 1
OP_PERIODIC_TRAIN == 3

DRAM_4GB_SAMSUNG_K4F6E304HB_MGCH == 0
DRAM_4GB_HYNIX_H9HCNNNBPUMLHR_NLN == 1
DRAM_4GB_MICRON_MT53B512M32D2NP_062_WT == 2
DRAM_4GB_COPPER_SAMSUNG == 3
DRAM_6GB_SAMSUNG_K4FHE3D4HM_MFCH == 4
DRAM_4GB_COPPER_HYNIX == 5
DRAM_4GB_COPPER_MICRON == 6

SDRAM0_NX_ABCA2_0_3 == [name |-> "SDRAM0_NX_ABCA2_0_3", len |-> BlobLen]
SDRAM1_NX_ABCA2_2_0 == [name |-> "SDRAM1_NX_ABCA2_2_0", len |-> BlobLen]

Frequency == {"Freq204", "Freq800", "Freq1600"}

\* impl Into<i32> for Frequency
FreqKhz(f) ==
    CASE f = "Freq204" -> 204000
      [] f = "Freq800" -> 800000
      [] f = "Freq1600" -> 1600000

\* `x as i32` for a u32 x: values above i32::MAX wrap around by 2^32
AsI32(x) == IF x > 2147483647 THEN ((x - 2147483647) - 2147483647) - 2 ELSE x

RecIdx == 0..(NumTables - 1)
ClkVals == 0..MaxClk
SdramIds == (0..MaxSdramId) \cup {2147483647}
ProfileNames == {"SDRAM0_NX_ABCA2_0_3", "SDRAM1_NX_ABCA2_2_0"}

----------------------------------------------------------------------------
(* dram_profile *)

None == [some |-> FALSE]
Some(v) == [some |-> TRUE, val |-> v]

\* variant: the Hynix copper part is wired to the SDRAM1 profile
get_by_sdram_id_copper(id) ==
    CASE id = DRAM_4GB_SAMSUNG_K4F6E304HB_MGCH -> Some(SDRAM0_NX_ABCA2_0_3)
      [] id = DRAM_4GB_HYNIX_H9HCNNNBPUMLHR_NLN -> Some(SDRAM1_NX_ABCA2_2_0)
      [] id = DRAM_4GB_MICRON_MT53B512M32D2NP_062_WT -> Some(SDRAM0_NX_ABCA2_0_3)
      [] id = DRAM_4GB_COPPER_SAMSUNG -> Some(SDRAM0_NX_ABCA2_0_3)
      [] id = DRAM_6GB_SAMSUNG_K4FHE3D4HM_MFCH -> Some(SDRAM0_NX_ABCA2_0_3)
      [] id = DRAM_4GB_COPPER_HYNIX -> Some(SDRAM1_NX_ABCA2_2_0)
      [] OTHER -> None

get_by_sdram_id(id) ==
    CASE id = DRAM_4GB_SAMSUNG_K4F6E304HB_MGCH -> Some(SDRAM0_NX_ABCA2_0_3)
      [] id = DRAM_4GB_HYNIX_H9HCNNNBPUMLHR_NLN -> Some(SDRAM1_NX_ABCA2_2_0)
      [] id = DRAM_4GB_MICRON_MT53B512M32D2NP_062_WT -> Some(SDRAM0_NX_ABCA2_0_3)
      [] id = DRAM_4GB_COPPER_SAMSUNG -> Some(SDRAM0_NX_ABCA2_0_3)
      [] id = DRAM_6GB_SAMSUNG_K4FHE3D4HM_MFCH -> Some(SDRAM0_NX_ABCA2_0_3)
      [] OTHER -> None

\* The parameter type &'static [u8; 49280]: only a blob of that length is a
\* legal argument of transform_table.
IsProfileBlob(table) == table.len = BlobLen

\* variant: emc_table_t is eight bytes shorter than a tenth of the blob
transform_table_short(table) ==
    [ptr |-> table.name,
     recs |-> [i \in 0..(NumTables - 1) |-> [lo |-> i * (RecordSize - 8),
                                              hi |-> (i + 1) * (RecordSize - 8) - 1]]]

\* The view of a blob as [emc_table_t; 10]: record i starts at byte
\* i * size_of::<emc_table_t>() of the blob and is size_of::<emc_table_t>() long.
transform_table(table) ==
    [ptr |-> table.name,
     recs |-> [i \in RecIdx |-> [lo |-> i * RecordSize,
                                 hi |-> (i + 1) * RecordSize - 1]]]

NoTables == [ptr |-> "null", recs |-> <<>>]

----------------------------------------------------------------------------
(* Contents of the profile blobs.  The blobs are binary assets; the model  *)
(* ranges over a family of tables: the rate ladder of the ten records, and *)
(* clock-source identifiers of which some repeat (records a and b), one is *)
(* unique (record c) and the rest match no register value of the model.    *)

RateLadder == <<40800, 68000, 102000, 204000, 408000,
                665600, 800000, 1065600, 1331200, 1600000>>

TableData(a, b, c) ==
    [i \in RecIdx |->
        [clk_src_emc |-> IF i = a \/ i = b THEN 1
                         ELSE IF i = c THEN 2
                         ELSE 100 + i,
         rate_khz |-> RateLadder[i + 1]]]

BlobContents ==
    {[n \in ProfileNames |->
        IF n = "SDRAM0_NX_ABCA2_0_3" THEN TableData(a, b, c) ELSE TableData(b, c, a)] :
        a \in {0, 3}, b \in {6}, c \in {9}}

\* self.tables[i]
Record(i) == blobs[tables.ptr][i]

----------------------------------------------------------------------------
(* The external training engine, raw::minerva_main(&mut cfg).  Under the   *)
(* "contract" model it overwrites rate_from with rate_to on a train or     *)
(* switch step and leaves it on a periodic step; under "any" it may or may *)
(* not update rate_from on any step.                                       *)

EngineModels == {"contract", "any"}

minerva_main(c) ==
    IF engineModel = "contract"
    THEN {[c EXCEPT !.rate_from =
              IF c.train_mode = OP_PERIODIC_TRAIN THEN c.rate_from ELSE c.rate_to]}
    ELSE {c, [c EXCEPT !.rate_from = c.rate_to]}

\* unsafe { raw::minerva_main(&mut self.cfg) } with cfg = c
CallEngine(c) ==
    /\ cfg' \in minerva_main(c)
    /\ issued' = Append(issued, c)
    /\ hw' = [hw EXCEPT !.invoked = TRUE]

\* read_clk_src_emc(): one volatile read of the register
read_clk_src_emc == reg

\* what an operation did, as remembered in prev: its name, its argument and
\* the (mode, target rate) of each engine invocation it made
Steps(calls) == [k \in 1..Len(calls) |-> <<calls[k].train_mode, calls[k].rate_to>>]

Done(op, entered, calls) ==
    [op |-> op.op, arg |-> op.arg, from |-> entered.rate_from, calls |-> Steps(calls)]

\* the register reads of one operation: how many, the first value, whether
\* all returned the same value, and the lowest record index at which the
\* value read equalled the record's identifier (-1: none so far)
NoReads == [n |-> 0, first |-> 0, stable |-> TRUE, hit |-> -1]

Observe(r, i, v, id) ==
    [n |-> r.n + 1,
     first |-> IF r.n = 0 THEN v ELSE r.first,
     stable |-> r.stable /\ (r.n = 0 \/ v = r.first),
     hit |-> IF r.hit = -1 /\ v = id THEN i ELSE r.hit]

NoOp == [op |-> "none", arg |-> "none"]

Bump(n) == IF n < 0 \/ n >= MaxSince THEN n ELSE n + 1

ZeroedCfg == [sdram_id |-> 0, mtc_table |-> "null", rate_from |-> 0,
              rate_to |-> 0, train_mode |-> 0]

NoBlob == [name |-> "none", len |-> 0, state |-> "unused", view |-> NoTables]

----------------------------------------------------------------------------
Init ==
    /\ pc = "none"
    /\ cfg = ZeroedCfg
    /\ tables = NoTables
    /\ idx = 0
    /\ ram_index = 0
    /\ reg \in ClkVals
    /\ blobs \in BlobContents
    /\ engineModel \in EngineModels
    /\ issued = <<>>
    /\ before = ZeroedCfg
    /\ lastOp = NoOp
    /\ reads = NoReads
    /\ hw = [read |-> FALSE, invoked |-> FALSE]
    /\ prev = Done(NoOp, ZeroedCfg, <<>>)
    /\ sinceInit = -1
    /\ blob = NoBlob

\* variant: the constructor probes the clock-source register
new_probing(sdram_id) ==
    /\ pc = "none"
    /\ LET profile == get_by_sdram_id(sdram_id) IN
        IF ~profile.some
        THEN /\ pc' = "failed"
             /\ UNCHANGED <<cfg, tables>>
        ELSE /\ pc' = "idle"
             /\ cfg' = [ZeroedCfg EXCEPT !.sdram_id = sdram_id]
             /\ tables' = transform_table(profile.val)
    /\ lastOp' = [op |-> "new", arg |-> sdram_id]
    /\ before' = cfg
    /\ issued' = <<>>
    /\ reads' = Observe(NoReads, 0, read_clk_src_emc, -1)
    /\ hw' = [hw EXCEPT !.read = TRUE]
    /\ UNCHANGED <<idx, ram_index, reg, blobs, engineModel, prev, sinceInit, blob>>

\* MinervaTrainer::new(sdram_id)
new(sdram_id) ==
    /\ pc = "none"
    /\ LET profile == get_by_sdram_id(sdram_id) IN
        IF ~profile.some
        THEN /\ pc' = "failed"
             /\ UNCHANGED <<cfg, tables>>
        ELSE /\ pc' = "idle"
             /\ cfg' = [ZeroedCfg EXCEPT !.sdram_id = sdram_id]
             /\ tables' = transform_table(profile.val)
    /\ lastOp' = [op |-> "new", arg |-> sdram_id]
    /\ before' = cfg
    /\ issued' = <<>>
    /\ reads' = NoReads
    /\ UNCHANGED <<idx, ram_index, reg, blobs, engineModel, hw, prev, sinceInit, blob>>

\* variant: init() refuses to run a second time
init_enter_once ==
    /\ pc = "idle"
    /\ sinceInit = -1
    /\ pc' = "scan"
    /\ cfg' = [cfg EXCEPT !.mtc_table = tables.ptr]
    /\ idx' = 0
    /\ lastOp' = [op |-> "init", arg |-> "none"]
    /\ before' = cfg
    /\ issued' = <<>>
    /\ reads' = NoReads
    /\ prev' = Done(lastOp, before, issued)
    /\ UNCHANGED <<tables, ram_index, reg, blobs, engineModel, hw, sinceInit, blob>>

\* init(), line 81: store the table pointer, start the scan
init_enter ==
    /\ pc = "idle"
    /\ pc' = "scan"
    /\ cfg' = [cfg EXCEPT !.mtc_table = tables.ptr]
    /\ idx' = 0
    /\ lastOp' = [op |-> "init", arg |-> "none"]
    /\ before' = cfg
    /\ issued' = <<>>
    /\ reads' = NoReads
    /\ prev' = Done(lastOp, before, issued)
    /\ UNCHANGED <<tables, ram_index, reg, blobs, engineModel, hw, sinceInit, blob>>

\* variant: when no record matches, the scan keeps the last index
init_scan_fallback_last ==
    /\ pc = "scan"
    /\ LET v == read_clk_src_emc IN
        /\ reads' = Observe(reads, idx, v, Record(idx).clk_src_emc)
        /\ hw' = [hw EXCEPT !.read = TRUE]
        /\ IF v = Record(idx).clk_src_emc \/ idx = NumTables - 1
           THEN /\ ram_index' = idx
                /\ pc' = "setup"
                /\ idx' = idx
           ELSE /\ idx' = idx + 1
                /\ UNCHANGED <<pc, ram_index>>
    /\ UNCHANGED <<cfg, tables, reg, blobs, engineModel, issued, before, lastOp, prev, sinceInit, blob>>

\* init(), lines 83-85: one step of (0..10).find(..).unwrap_or(0); the
\* closure reads the register each time it is called
init_scan ==
    /\ pc = "scan"
    /\ LET v == read_clk_src_emc IN
        /\ reads' = Observe(reads, idx, v, Record(idx).clk_src_emc)
        /\ hw' = [hw EXCEPT !.read = TRUE]
        /\ IF v = Record(idx).clk_src_emc
           THEN /\ ram_index' = idx
                /\ pc' = "setup"
                /\ idx' = idx
           ELSE IF idx = NumTables - 1
           THEN /\ ram_index' = 0
                /\ pc' = "setup"
                /\ idx' = idx
           ELSE /\ idx' = idx + 1
                /\ UNCHANGED <<pc, ram_index>>
    /\ UNCHANGED <<cfg, tables, reg, blobs, engineModel, issued, before, lastOp, prev, sinceInit, blob>>

\* init(), lines 87-89
init_setup ==
    /\ pc = "setup"
    /\ cfg' = [cfg EXCEPT !.rate_from = AsI32(Record(ram_index).rate_khz),
                          !.rate_to = FreqKhz("Freq204"),
                          !.train_mode = OP_TRAIN]
    /\ pc' = "train204"
    /\ UNCHANGED <<tables, idx, ram_index, reg, blobs, engineModel, issued, before,
                   lastOp, reads, hw, prev, sinceInit, blob>>

\* init(), line 90
init_train204 ==
    /\ pc = "train204"
    /\ CallEngine(cfg)
    /\ pc' = "train800"
    /\ UNCHANGED <<tables, idx, ram_index, reg, blobs, engineModel, before,
                   lastOp, reads, prev, sinceInit, blob>>

\* variant: the trainer itself records the rate it has just trained to
init_train800_tracks_rate ==
    /\ pc = "train800"
    /\ CallEngine([cfg EXCEPT !.rate_from = cfg.rate_to,
                              !.rate_to = FreqKhz("Freq800")])
    /\ pc' = "train1600"
    /\ UNCHANGED <<tables, idx, ram_index, reg, blobs, engineModel, before,
                   lastOp, reads, prev, sinceInit, blob>>

\* init(), lines 91-92
init_train800 ==
    /\ pc = "train800"
    /\ CallEngine([cfg EXCEPT !.rate_to = FreqKhz("Freq800")])
    /\ pc' = "train1600"
    /\ UNCHANGED <<tables, idx, ram_index, reg, blobs, engineModel, before,
                   lastOp, reads, prev, sinceInit, blob>>

\* init(), lines 93-94
init_train1600 ==
    /\ pc = "train1600"
    /\ CallEngine([cfg EXCEPT !.rate_to = FreqKhz("Freq1600")])
    /\ pc' = "fsp_war"
    /\ UNCHANGED <<tables, idx, ram_index, reg, blobs, engineModel, before,
                   lastOp, reads, prev, sinceInit, blob>>

\* variant: the workaround step forgets to leave full-train mode
init_fsp_war_keeps_mode ==
    /\ pc = "fsp_war"
    /\ CallEngine([cfg EXCEPT !.rate_to = FreqKhz("Freq800")])
    /\ pc' = "switch1600"
    /\ UNCHANGED <<tables, idx, ram_index, reg, blobs, engineModel, before,
                   lastOp, reads, prev, sinceInit, blob>>

\* init(), lines 96-99: FSP WAR
init_fsp_war ==
    /\ pc = "fsp_war"
    /\ CallEngine([cfg EXCEPT !.train_mode = OP_SWITCH,
                              !.rate_to = FreqKhz("Freq800")])
    /\ pc' = "switch1600"
    /\ UNCHANGED <<tables, idx, ram_index, reg, blobs, engineModel, before,
                   lastOp, reads, prev, sinceInit, blob>>

\* variant: the last step stays at 800MHz
init_switch1600_stays_800 ==
    /\ pc = "switch1600"
    /\ CallEngine([cfg EXCEPT !.rate_to = FreqKhz("Freq800")])
    /\ pc' = "idle"
    /\ sinceInit' = 0
    /\ idx' = 0
    /\ ram_index' = 0
    /\ UNCHANGED <<tables, reg, blobs, engineModel, before, lastOp, reads, prev, blob>>

\* variant: the last step sets the target rate but forgets the engine call
init_switch1600_no_call ==
    /\ pc = "switch1600"
    /\ cfg' = [cfg EXCEPT !.rate_to = FreqKhz("Freq1600")]
    /\ pc' = "idle"
    /\ sinceInit' = 0
    /\ idx' = 0
    /\ ram_index' = 0
    /\ UNCHANGED <<tables, reg, blobs, engineModel, issued, before, lastOp, reads,
                   hw, prev, blob>>

\* init(), lines 101-104: switch to 1600MHz and return
init_switch1600 ==
    /\ pc = "switch1600"
    /\ CallEngine([cfg EXCEPT !.rate_to = FreqKhz("Freq1600")])
    /\ pc' = "idle"
    /\ sinceInit' = 0
    /\ idx' = 0
    /\ ram_index' = 0
    /\ UNCHANGED <<tables, reg, blobs, engineModel, before, lastOp, reads, prev, blob>>

\* variant: the guard compares the requested rate with rate_to
change_frequency_cmp_rate_to(f) ==
    /\ pc = "idle"
    /\ LET freq == FreqKhz(f) IN
        IF cfg.rate_to # freq
        THEN /\ issued' = <<[cfg EXCEPT !.rate_to = freq, !.train_mode = OP_SWITCH]>>
             /\ cfg' \in minerva_main(issued'[1])
             /\ hw' = [hw EXCEPT !.invoked = TRUE]
        ELSE /\ issued' = <<>>
             /\ UNCHANGED <<cfg, hw>>
    /\ lastOp' = [op |-> "change_frequency", arg |-> f]
    /\ before' = cfg
    /\ reads' = NoReads
    /\ prev' = Done(lastOp, before, issued)
    /\ sinceInit' = Bump(sinceInit)
    /\ UNCHANGED <<pc, tables, idx, ram_index, reg, blobs, engineModel, blob>>

\* variant: no guard, the engine is always invoked
change_frequency_unguarded(f) ==
    /\ pc = "idle"
    /\ issued' = <<[cfg EXCEPT !.rate_to = FreqKhz(f), !.train_mode = OP_SWITCH]>>
    /\ cfg' \in minerva_main(issued'[1])
    /\ hw' = [hw EXCEPT !.invoked = TRUE]
    /\ lastOp' = [op |-> "change_frequency", arg |-> f]
    /\ before' = cfg
    /\ reads' = NoReads
    /\ prev' = Done(lastOp, before, issued)
    /\ sinceInit' = Bump(sinceInit)
    /\ UNCHANGED <<pc, tables, idx, ram_index, reg, blobs, engineModel, blob>>

\* variant: rate_to and train_mode are assigned before the guard
change_frequency_sets_before_guard(f) ==
    /\ pc = "idle"
    /\ LET freq == FreqKhz(f)
           c == [cfg EXCEPT !.rate_to = freq, !.train_mode = OP_SWITCH] IN
        IF cfg.rate_from # freq
        THEN /\ issued' = <<c>>
             /\ cfg' \in minerva_main(c)
             /\ hw' = [hw EXCEPT !.invoked = TRUE]
        ELSE /\ issued' = <<>>
             /\ cfg' = c
             /\ UNCHANGED hw
    /\ lastOp' = [op |-> "change_frequency", arg |-> f]
    /\ before' = cfg
    /\ reads' = NoReads
    /\ prev' = Done(lastOp, before, issued)
    /\ sinceInit' = Bump(sinceInit)
    /\ UNCHANGED <<pc, tables, idx, ram_index, reg, blobs, engineModel, blob>>

\* variant: the guard is inverted
change_frequency_inverted(f) ==
    /\ pc = "idle"
    /\ LET freq == FreqKhz(f) IN
        IF cfg.rate_from = freq
        THEN /\ issued' = <<[cfg EXCEPT !.rate_to = freq, !.train_mode = OP_SWITCH]>>
             /\ cfg' \in minerva_main(issued'[1])
             /\ hw' = [hw EXCEPT !.invoked = TRUE]
        ELSE /\ issued' = <<>>
             /\ UNCHANGED <<cfg, hw>>
    /\ lastOp' = [op |-> "change_frequency", arg |-> f]
    /\ before' = cfg
    /\ reads' = NoReads
    /\ prev' = Done(lastOp, before, issued)
    /\ sinceInit' = Bump(sinceInit)
    /\ UNCHANGED <<pc, tables, idx, ram_index, reg, blobs, engineModel, blob>>

\* change_frequency(freq)
change_frequency(f) ==
    /\ pc = "idle"
    /\ LET freq == FreqKhz(f) IN
        IF cfg.rate_from # freq
        THEN /\ issued' = <<[cfg EXCEPT !.rate_to = freq, !.train_mode = OP_SWITCH]>>
             /\ cfg' \in minerva_main(issued'[1])
             /\ hw' = [hw EXCEPT !.invoked = TRUE]
        ELSE /\ issued' = <<>>
             /\ UNCHANGED <<cfg, hw>>
    /\ lastOp' = [op |-> "change_frequency", arg |-> f]
    /\ before' = cfg
    /\ reads' = NoReads
    /\ prev' = Done(lastOp, before, issued)
    /\ sinceInit' = Bump(sinceInit)
    /\ UNCHANGED <<pc, tables, idx, ram_index, reg, blobs, engineModel, blob>>

\* variant: eligibility is decided on rate_to
periodic_training_cmp_rate_to ==
    /\ pc = "idle"
    /\ IF cfg.rate_to = FreqKhz("Freq1600")
       THEN /\ issued' = <<[cfg EXCEPT !.train_mode = OP_PERIODIC_TRAIN]>>
            /\ cfg' \in minerva_main(issued'[1])
            /\ hw' = [hw EXCEPT !.invoked = TRUE]
       ELSE /\ issued' = <<>>
            /\ UNCHANGED <<cfg, hw>>
    /\ lastOp' = [op |-> "periodic_training", arg |-> "none"]
    /\ before' = cfg
    /\ reads' = NoReads
    /\ prev' = Done(lastOp, before, issued)
    /\ sinceInit' = Bump(sinceInit)
    /\ UNCHANGED <<pc, tables, idx, ram_index, reg, blobs, engineModel, blob>>

\* variant: the mode left by the previous operation is reused
periodic_training_keeps_mode ==
    /\ pc = "idle"
    /\ IF cfg.rate_from = FreqKhz("Freq1600")
       THEN /\ issued' = <<cfg>>
            /\ cfg' \in minerva_main(issued'[1])
            /\ hw' = [hw EXCEPT !.invoked = TRUE]
       ELSE /\ issued' = <<>>
            /\ UNCHANGED <<cfg, hw>>
    /\ lastOp' = [op |-> "periodic_training", arg |-> "none"]
    /\ before' = cfg
    /\ reads' = NoReads
    /\ prev' = Done(lastOp, before, issued)
    /\ sinceInit' = Bump(sinceInit)
    /\ UNCHANGED <<pc, tables, idx, ram_index, reg, blobs, engineModel, blob>>

\* periodic_training()
periodic_training ==
    /\ pc = "idle"
    /\ IF cfg.rate_from = FreqKhz("Freq1600")
       THEN /\ issued' = <<[cfg EXCEPT !.train_mode = OP_PERIODIC_TRAIN]>>
            /\ cfg' \in minerva_main(issued'[1])
            /\ hw' = [hw EXCEPT !.invoked = TRUE]
       ELSE /\ issued' = <<>>
            /\ UNCHANGED <<cfg, hw>>
    /\ lastOp' = [op |-> "periodic_training", arg |-> "none"]
    /\ before' = cfg
    /\ reads' = NoReads
    /\ prev' = Done(lastOp, before, issued)
    /\ sinceInit' = Bump(sinceInit)
    /\ UNCHANGED <<pc, tables, idx, ram_index, reg, blobs, engineModel, blob>>

\* The hardware changes the clock-source register.  Only init's scan reads
\* the register, so changes are modelled where a read can observe them.
clock_source_changes ==
    /\ pc = "scan"
    /\ \E v \in ClkVals : v # reg /\ reg' = v
    /\ UNCHANGED <<pc, cfg, tables, idx, ram_index, blobs, engineModel,
                   issued, before, lastOp, reads, hw, prev, sinceInit, blob>>

Next ==
    \/ \E id \in SdramIds : new(id)
    \/ init_enter
    \/ init_scan
    \/ init_setup
    \/ init_train204
    \/ init_train800
    \/ init_train1600
    \/ init_fsp_war
    \/ init_switch1600
    \/ \E f \in Frequency : change_frequency(f)
    \/ periodic_training
    \/ clock_source_changes

Spec == Init /\ [][Next]_vars

----------------------------------------------------------------------------
(* transform_table on its own: candidate blobs of lengths around 49280 are *)
(* offered to it; the parameter type admits only the 49280-byte ones.      *)

BlobLens == (BlobLen - LenSlack)..(BlobLen + LenSlack)

InitBlob ==
    /\ pc = "none"
    /\ cfg = ZeroedCfg
    /\ tables = NoTables
    /\ idx = 0
    /\ ram_index = 0
    /\ reg = 0
    /\ blobs = [n \in ProfileNames |-> TableData(0, 6, 9)]
    /\ engineModel = "contract"
    /\ issued = <<>>
    /\ before = ZeroedCfg
    /\ lastOp = NoOp
    /\ reads = NoReads
    /\ hw = [read |-> FALSE, invoked |-> FALSE]
    /\ prev = Done(NoOp, ZeroedCfg, <<>>)
    /\ sinceInit = -1
    /\ \E n \in ProfileNames, l \in BlobLens :
          blob = [name |-> n, len |-> l, state |-> "candidate", view |-> NoTables]

\* transform_table(&blob): ill-typed unless the blob is a [u8; 49280]
view_blob ==
    /\ blob.state = "candidate"
    /\ IF IsProfileBlob(blob)
       THEN blob' = [blob EXCEPT !.state = "accepted",
                                 !.view = transform_table([name |-> blob.name, len |-> blob.len])]
       ELSE blob' = [blob EXCEPT !.state = "rejected"]
    /\ UNCHANGED <<pc, cfg, tables, idx, ram_index, reg, blobs, engineModel,
                   issued, before, lastOp, reads, hw, prev, sinceInit>>

NextBlob == view_blob

SpecBlob == InitBlob /\ [][NextBlob]_vars

----------------------------------------------------------------------------
(* Properties *)

Khz204 == FreqKhz("Freq204")
Khz800 == FreqKhz("Freq800")
Khz1600 == FreqKhz("Freq1600")

\* the (mode, target rate) steps of bring-up
InitSteps == << <<OP_TRAIN, Khz204>>, <<OP_TRAIN, Khz800>>, <<OP_TRAIN, Khz1600>>,
                <<OP_SWITCH, Khz800>>, <<OP_SWITCH, Khz1600>> >>

\* number of engine invocations init has made when it stands at a position
IssuedAt(p) ==
    CASE p \in {"scan", "setup", "train204"} -> 0
      [] p = "train800" -> 1
      [] p = "train1600" -> 2
      [] p = "fsp_war" -> 3
      [] p = "switch1600" -> 4
      [] OTHER -> 5

InInit == pc \in {"scan", "setup", "train204", "train800", "train1600", "fsp_war", "switch1600"}
Returned(op) == pc = "idle" /\ lastOp.op = op
Supported == {DRAM_4GB_SAMSUNG_K4F6E304HB_MGCH, DRAM_4GB_HYNIX_H9HCNNNBPUMLHR_NLN,
              DRAM_4GB_MICRON_MT53B512M32D2NP_062_WT, DRAM_4GB_COPPER_SAMSUNG,
              DRAM_6GB_SAMSUNG_K4FHE3D4HM_MFCH}

\* C1: whatever the chip identity and the register values, init() hands the
\* engine exactly the five steps (full-train 204000), (full-train 800000),
\* (full-train 1600000), (switch 800000), (switch 1600000), in this order:
\* at every position of init the invocations made so far are the first
\* IssuedAt(pc) of them, and all five have been made when init returns.
C1_InitIssuesFiveSteps ==
    lastOp.op = "init" =>
        /\ Len(issued) = IssuedAt(pc)
        /\ Steps(issued) = SubSeq(InitSteps, 1, Len(issued))

\* an init() that found no matching record, on the SDRAM1 profile, has returned
C1_Witness ==
    /\ Returned("init")
    /\ Len(issued) = 5
    /\ cfg.sdram_id = DRAM_4GB_HYNIX_H9HCNNNBPUMLHR_NLN
    /\ reads.n = NumTables
    /\ reads.hit = -1

\* C2: change_frequency(f) makes no engine invocation when the kHz value of f
\* equals the current rate it was entered with, and otherwise exactly one,
\* with mode frequency-switch and target rate the kHz value of f.
C2_ChangeFrequencyCalls ==
    lastOp.op = "change_frequency" =>
        IF before.rate_from = FreqKhz(lastOp.arg)
        THEN issued = <<>>
        ELSE Steps(issued) = << <<OP_SWITCH, FreqKhz(lastOp.arg)>> >>

\* a change_frequency entered right after a periodic_training that invoked
\* the engine (mode left at periodic-train) has switched
C2_Witness ==
    /\ Returned("change_frequency")
    /\ prev.op = "periodic_training"
    /\ Len(prev.calls) = 1
    /\ before.train_mode = OP_PERIODIC_TRAIN
    /\ Len(issued) = 1

\* C3: periodic_training() makes exactly one engine invocation, in mode
\* periodic-train, when the current rate it was entered with is 1600000, and
\* none otherwise, whatever rate_to holds; rate_to is as it was on entry.
C3_PeriodicTrainingCalls ==
    lastOp.op = "periodic_training" =>
        /\ IF before.rate_from = Khz1600
           THEN /\ Len(issued) = 1
                /\ issued[1].train_mode = OP_PERIODIC_TRAIN
                /\ issued[1].rate_to = before.rate_to
           ELSE issued = <<>>
        /\ cfg.rate_to = before.rate_to

\* a periodic_training entered at 1600000 with another target rate left in
\* rate_to has invoked the engine
C3_Witness ==
    /\ Returned("periodic_training")
    /\ before.rate_from = Khz1600
    /\ before.rate_to = Khz800
    /\ Len(issued) = 1

SameTwice ==
    /\ lastOp.op = "change_frequency"
    /\ prev.op = "change_frequency"
    /\ prev.arg = lastOp.arg

\* C4: with an engine that sets the current rate to the target rate, the
\* second of two consecutive change_frequency(f) calls does nothing, and the
\* two together make exactly one engine invocation when the current rate
\* differed from f before the first.
C4_ChangeFrequencyIdempotent ==
    (engineModel = "contract" /\ SameTwice) =>
        /\ issued = <<>>
        /\ cfg = before
        /\ prev.from # FreqKhz(lastOp.arg) => Len(prev.calls) + Len(issued) = 1
        /\ prev.from = FreqKhz(lastOp.arg) => Len(prev.calls) + Len(issued) = 0

\* the second of two change_frequency(Freq800) has returned, the first having switched
C4_Witness ==
    /\ engineModel = "contract"
    /\ SameTwice
    /\ pc = "idle"
    /\ lastOp.arg = "Freq800"
    /\ prev.from # Khz800
    /\ Len(prev.calls) = 1

\* C5: new() never reads the register and never invokes the engine; with an
\* identity the registry does not resolve it returns None, and then no
\* register read and no engine invocation has happened or ever happens.
C5_NewTouchesNoHardware ==
    /\ lastOp.op = "new" =>
          /\ issued = <<>>
          /\ reads.n = 0
          /\ ~hw.read
          /\ ~hw.invoked
          /\ (lastOp.arg \notin Supported) => pc = "failed"
    /\ pc = "failed" =>
          /\ lastOp.op = "new"
          /\ lastOp.arg \notin Supported
          /\ tables = NoTables
          /\ ~hw.read
          /\ ~hw.invoked

\* new() was refused for an identity outside the registry
C5_Witness ==
    /\ pc = "failed"
    /\ lastOp = [op |-> "new", arg |-> 7]

\* the profile the registry is documented to hold for an identity
ProfileFor(id) ==
    IF id \in {0, 2, 3, 4} THEN "SDRAM0_NX_ABCA2_0_3"
    ELSE IF id = 1 THEN "SDRAM1_NX_ABCA2_2_0"
    ELSE "null"

\* C6: the lookup yields the SDRAM0 profile for identities 0, 2, 3, 4, the
\* SDRAM1 profile for identity 1 and nothing for any other identity (5 and 6
\* included); new(id) yields a trainer exactly when the lookup yields a
\* profile, and the trainer's table is that profile seen as 10 records.
C6_RegistryLookup ==
    /\ lastOp.op = "new" =>
          /\ (pc = "idle") = (ProfileFor(lastOp.arg) # "null")
          /\ (pc = "failed") = (ProfileFor(lastOp.arg) = "null")
          /\ (pc = "idle") = get_by_sdram_id(lastOp.arg).some
          /\ pc = "idle" => cfg.sdram_id = lastOp.arg
    /\ pc \notin {"none", "failed"} =>
          /\ tables.ptr = ProfileFor(cfg.sdram_id)
          /\ tables.ptr # "null"
          /\ Cardinality(DOMAIN tables.recs) = 10
    /\ pc \in {"none", "failed"} => tables = NoTables

\* a trainer was built for identity 1 on the SDRAM1 profile
C6_Witness ==
    /\ Returned("new")
    /\ lastOp.arg = 1
    /\ tables.ptr = "SDRAM1_NX_ABCA2_2_0"

\* C7: every engine invocation receives a configuration whose table pointer
\* references the trainer's table; none is made with the null pointer left
\* by construction, that is before init() has run.
C7_EngineGetsPopulatedConfig ==
    \A k \in 1..Len(issued) :
        /\ issued[k].mtc_table = tables.ptr
        /\ issued[k].mtc_table # "null"

\* the selection of init's scan is made and still in scope
Selected == pc \in {"setup", "train204", "train800", "train1600", "fsp_war", "switch1600"}

\* the lowest record index whose identifier is v, 0 when there is none
LowestMatch(v) ==
    LET M == {i \in RecIdx : Record(i).clk_src_emc = v} IN
    IF M = {} THEN 0 ELSE CHOOSE i \in M : \A j \in M : i <= j

\* C8: init() selects the lowest record index whose stored clock-source
\* identifier equals the live register value (the value read when that
\* record is compared), and index 0 when no record matches; it always goes
\* on to bring-up, and its first engine invocation is made with rate_from =
\* the rate_khz of the selected record.
C8_InitSelectsRecord ==
    /\ Selected =>
          /\ ram_index = (IF reads.hit = -1 THEN 0 ELSE reads.hit)
          /\ reads.n = (IF reads.hit = -1 THEN NumTables ELSE reads.hit + 1)
          /\ reads.stable => ram_index = LowestMatch(reads.first)
    /\ (Selected /\ Len(issued) >= 1) =>
          issued[1].rate_from = AsI32(Record(ram_index).rate_khz)
    /\ (lastOp.op = "init" /\ Len(issued) >= 1) =>
          /\ issued[1].rate_from \in {AsI32(Record(i).rate_khz) : i \in RecIdx}
          /\ reads.stable => issued[1].rate_from = AsI32(Record(LowestMatch(reads.first)).rate_khz)

\* init() made its first invocation after picking the lower of two matching
\* records, which is not record 0
C8_Witness ==
    /\ pc = "train800"
    /\ reads.stable
    /\ ram_index = 3
    /\ Cardinality({i \in RecIdx : Record(i).clk_src_emc = reads.first}) = 2
    /\ issued[1].rate_from = 204000

\* C9: with an engine that sets the current rate to the target rate on
\* full-train and switch steps, init() returns at 1600000 for every identity
\* and register reading; right after it change_frequency(Freq1600) does
\* nothing, periodic_training() invokes the engine, and change_frequency(Freq800)
\* then change_frequency(Freq1600) make one switch invocation each and end
\* at 1600000.
C9_InitEndsAt1600 ==
    engineModel = "contract" =>
        /\ (pc = "idle" /\ sinceInit = 0) => cfg.rate_from = Khz1600
        /\ (sinceInit = 1 /\ lastOp = [op |-> "change_frequency", arg |-> "Freq1600"]) =>
              issued = <<>>
        /\ (sinceInit = 1 /\ lastOp.op = "periodic_training") =>
              Steps(issued) = << <<OP_PERIODIC_TRAIN, Khz1600>> >>
        /\ (sinceInit = 1 /\ lastOp = [op |-> "change_frequency", arg |-> "Freq800"]) =>
              /\ Steps(issued) = << <<OP_SWITCH, Khz800>> >>
              /\ cfg.rate_from = Khz800
        /\ (/\ sinceInit = 2
            /\ prev.op = "change_frequency" /\ prev.arg = "Freq800"
            /\ lastOp = [op |-> "change_frequency", arg |-> "Freq1600"]) =>
              /\ prev.calls = << <<OP_SWITCH, Khz800>> >>
              /\ Steps(issued) = << <<OP_SWITCH, Khz1600>> >>
              /\ cfg.rate_from = Khz1600

\* after init(), change_frequency(Freq800) and change_frequency(Freq1600) have run
C9_Witness ==
    /\ engineModel = "contract"
    /\ sinceInit = 2
    /\ prev.op = "change_frequency" /\ prev.arg = "Freq800"
    /\ lastOp = [op |-> "change_frequency", arg |-> "Freq1600"]
    /\ cfg.rate_from = Khz1600

C11_InitReadsOnce ==
    Selected => ram_index = LowestMatch(reads.first)

\* the engine was invoked by the step from the current state to the next
Invokes ==
    \/ InInit /\ Len(issued') = Len(issued) + 1
    \/ pc = "idle" /\ pc' = "idle" /\ Len(issued') = 1

\* C12: the trainer assigns rate_from once, in init() before its first engine
\* invocation, and nowhere else: a step that invokes the engine hands it the
\* rate_from the configuration had, and leaves the result in it as the engine
\* produced it; any other step that changes rate_from is init's lines 87-89,
\* taken with no invocation made yet.
C12_OnlyEngineChangesRate ==
    [][/\ Invokes =>
            /\ issued'[Len(issued')].rate_from = cfg.rate_from
            /\ cfg' \in minerva_main(issued'[Len(issued')])
       /\ (~Invokes /\ cfg'.rate_from # cfg.rate_from) =>
            /\ pc = "setup"
            /\ issued = <<>>
            /\ cfg'.rate_from = AsI32(Record(ram_index).rate_khz)]_vars

\* init() was handed back 204000 by the engine after starting from another rate
C12_Witness ==
    /\ lastOp.op = "init"
    /\ Len(issued) = 2
    /\ issued[1].rate_from # Khz204
    /\ issued[2].rate_from = Khz204

NoOpCall ==
    \/ lastOp.op = "change_frequency" /\ before.rate_from = FreqKhz(lastOp.arg)
    \/ lastOp.op = "periodic_training" /\ before.rate_from # Khz1600

\* C13: a change_frequency(f) entered with the current rate equal to the kHz
\* value of f, and a periodic_training() entered with a current rate other
\* than 1600000, leave every field of the configuration as it was and touch
\* no hardware: no engine invocation, no register read.
C13_NoOpChangesNothing ==
    NoOpCall =>
        /\ cfg = before
        /\ issued = <<>>
        /\ reads.n = 0

\* change_frequency(Freq1600) did nothing on a configuration whose mode was
\* left at periodic-train
C13_Witness ==
    /\ Returned("change_frequency")
    /\ lastOp.arg = "Freq1600"
    /\ before.rate_from = Khz1600
    /\ before.train_mode = OP_PERIODIC_TRAIN
    /\ cfg.train_mode = OP_PERIODIC_TRAIN

\* C14: a constructed trainer holds the supplied identity and zero current
\* rate, target rate and mode; periodic_training() on a trainer that was
\* never initialised makes no engine invocation.
C14_FreshTrainerIsZeroed ==
    /\ Returned("new") =>
          /\ cfg.sdram_id = lastOp.arg
          /\ cfg.rate_from = 0
          /\ cfg.rate_to = 0
          /\ cfg.train_mode = 0
    /\ (sinceInit = -1 /\ lastOp.op = "periodic_training") => issued = <<>>

\* an earlier init() has returned and init() is running again
ReInit == InInit /\ sinceInit >= 0

\* C15: init() can be entered again in whatever state the trainer is
\* left idle; run again, it reads the register again, takes rate_from from the
\* record it selects, hands the engine the same five steps and returns to the
\* idle (Ready) state.
C15_InitRunsAgain ==
    /\ [](pc = "idle" => ENABLED init_enter)
    /\ [](ReInit =>
            /\ lastOp.op = "init"
            /\ cfg.mtc_table = tables.ptr
            /\ Len(issued) = IssuedAt(pc)
            /\ Steps(issued) = SubSeq(InitSteps, 1, Len(issued))
            /\ Selected =>
                  /\ reads.n >= 1
                  /\ ram_index = (IF reads.hit = -1 THEN 0 ELSE reads.hit)
            /\ Len(issued) >= 1 =>
                  issued[1].rate_from = AsI32(Record(ram_index).rate_khz))
    /\ [][(ReInit /\ pc = "switch1600") =>
            /\ pc' = "idle"
            /\ Steps(issued') = InitSteps
            /\ sinceInit' = 0]_vars

\* a second init() has returned; it was entered right after a
\* periodic_training that invoked the engine
C15_Witness ==
    /\ Returned("init")
    /\ Len(issued) = 5
    /\ before.mtc_table # "null"
    /\ before.train_mode = OP_PERIODIC_TRAIN
    /\ prev.op = "periodic_training"
    /\ Len(prev.calls) = 1

\* C16: with an engine that sets rate_from to rate_to on full-train and switch
\* steps and leaves it on periodic steps, rate_to equals rate_from whenever
\* the trainer is between operations, and every periodic-train invocation is
\* made with rate_to = rate_from = 1600000.
C16_TargetEqualsCurrent ==
    engineModel = "contract" =>
        /\ pc = "idle" => cfg.rate_to = cfg.rate_from
        /\ \A k \in 1..Len(issued) :
              issued[k].train_mode = OP_PERIODIC_TRAIN =>
                  /\ issued[k].rate_to = Khz1600
                  /\ issued[k].rate_from = Khz1600

\* a periodic_training has invoked the engine after an init()
C16_Witness ==
    /\ engineModel = "contract"
    /\ Returned("periodic_training")
    /\ sinceInit = 1
    /\ Len(issued) = 1
    /\ cfg.rate_to = Khz1600

\* C17: with the same engine, no frequency-switch invocation is made with
\* rate_to equal to rate_from: not by the two switch steps of init(), not by
\* change_frequency.
C17_NoRedundantSwitch ==
    engineModel = "contract" =>
        \A k \in 1..Len(issued) :
            issued[k].train_mode = OP_SWITCH => issued[k].rate_to # issued[k].rate_from

\* init() has made both switch steps, 1600000 -> 800000 and 800000 -> 1600000
C17_Witness ==
    /\ engineModel = "contract"
    /\ Returned("init")
    /\ issued[4].rate_from = Khz1600 /\ issued[4].rate_to = Khz800
    /\ issued[5].rate_from = Khz800 /\ issued[5].rate_to = Khz1600

\* C18: full-train invocations are exactly the first three invocations of an
\* init(); change_frequency invokes the engine in frequency-switch mode only
\* and periodic_training in periodic-train mode only, whatever mode the
\* previous operation left in the configuration.
C18_ModesPerOperation ==
    \A k \in 1..Len(issued) :
        /\ lastOp.op = "init" => (issued[k].train_mode = OP_TRAIN) = (k <= 3)
        /\ lastOp.op = "init" => issued[k].train_mode \in {OP_TRAIN, OP_SWITCH}
        /\ lastOp.op = "change_frequency" => issued[k].train_mode = OP_SWITCH
        /\ lastOp.op = "periodic_training" => issued[k].train_mode = OP_PERIODIC_TRAIN
        /\ lastOp.op \in {"init", "change_frequency", "periodic_training"}

\* periodic_training invoked the engine on a configuration whose mode an
\* init() or change_frequency had left at frequency-switch
C18_Witness ==
    /\ Returned("periodic_training")
    /\ before.train_mode = OP_SWITCH
    /\ Len(issued) = 1
    /\ issued[1].train_mode = OP_PERIODIC_TRAIN

====
